---- MODULE Spec2Model ----
(***************************************************************************)
(* Model of bot_webhook.py: a Telegram bot that manages work orders        *)
(* ("Ordens de Servico", O.S.) kept in Firestore.  One action per handler   *)
(* of the ConversationHandler built in main(), plus the job callbacks.      *)
(*                                                                         *)
(* Conventions.                                                            *)
(*  - A callback payload is modelled as the sequence of its '_'-separated   *)
(*    parts, i.e. as the value of query.data.split('_'):                    *)
(*    "edit_field_Prazo" is <<"edit", "field", "Prazo">>.                   *)
(*  - A python dict is a function whose DOMAIN is the set of its keys.      *)
(*  - A field value is a record [k, s, d]: a string (k = "str"), a          *)
(*    datetime (k = "dt", d = clock ticks) or None (k = "none").            *)
(*  - A handler that raises leaves the conversation state as it was         *)
(*    (python-telegram-bot does not record a new state), but keeps the      *)
(*    assignments to user_data made before the exception.                   *)
(***************************************************************************)
EXTENDS Integers, Sequences, FiniteSets, TLC

(***************************************************************************)
(* Bounds of the model.                                                    *)
(***************************************************************************)
MaxId == 2          \* order numbers the operators type
NumSessions == 2    \* chats (conversation keys) that talk to the bot at the same time
MaxText == 1        \* distinct free-text values typed per field
MaxChoice == 1      \* options of each choice keyboard the operators press
MaxDate == 0        \* calendar days typed into the dialogue: 0..MaxDate
MaxDay == 2         \* calendar days of the deadlines of the orders: 0..MaxDay
MaxNow == 2         \* the clock runs over the ticks 0..MaxNow
DayLen == 2         \* clock ticks per calendar day
MaxJobs == 2        \* manual reminders ever created

(***************************************************************************)
(* Names: the texts the operators can type.                                *)
(***************************************************************************)
IdNames == <<"1", "2", "3", "4">>
TextNames == <<"txt1", "txt2", "txt3">>
\* DateNames[d + 1] is the text DD/MM/AAAA of calendar day d
DateNames == <<"D0", "D1", "D2", "D3", "D4", "D5", "D6">>
\* TimeNames[t + 1] is the text DD/MM/AAAA HH:MM of clock tick t
TimeNames == <<"T0", "T1", "T2", "T3", "T4", "T5", "T6">>

Min(a, b) == IF a < b THEN a ELSE b

Ids == {IdNames[i] : i \in 1..Min(MaxId, Len(IdNames))}
Texts == {TextNames[i] : i \in 1..Min(MaxText, Len(TextNames))}
Days == 0..Min(MaxDay, Len(DateNames) - 1)
Ticks == 0..Min(MaxNow, Len(TimeNames) - 1)
TypedDays == 0..Min(MaxDate, Len(DateNames) - 1)

(***************************************************************************)
(* Field values.                                                           *)
(***************************************************************************)
Str(s) == [k |-> "str", s |-> s, d |-> 0]
Dt(t) == [k |-> "dt", s |-> "", d |-> t]
None == [k |-> "none", s |-> "", d |-> 0]

\* python truthiness of a field value (None and '' are falsy)
Truthy(v) == v.k = "dt" \/ (v.k = "str" /\ v.s # "")

\* midnight of calendar day d, as a clock tick
Midnight(d) == d * DayLen
\* datetime.replace(hour=0, minute=0, second=0, microsecond=0)
Floor(t) == (t \div DayLen) * DayLen

\* str.isdigit() on the texts typed as order numbers
IsDigit(text) == \E i \in 1..Len(IdNames) : IdNames[i] = text

\* datetime.strptime(text, '%d/%m/%Y'): the tick of midnight, or -1 (ValueError)
StrptimeDMY(text) ==
    IF \E d \in 0..(Len(DateNames) - 1) : DateNames[d + 1] = text
    THEN Midnight(CHOOSE d \in 0..(Len(DateNames) - 1) : DateNames[d + 1] = text)
    ELSE -1

\* datetime.strptime(text, '%d/%m/%Y %H:%M'): the tick, or -1 (ValueError)
StrptimeDMYHM(text) ==
    IF \E t \in 0..(Len(TimeNames) - 1) : TimeNames[t + 1] = text
    THEN CHOOSE t \in 0..(Len(TimeNames) - 1) : TimeNames[t + 1] = text
    ELSE -1

\* text.upper() == 'N/A'
IsNA(text) == text \in {"N/A", "n/a"}

(***************************************************************************)
(* Dicts.                                                                  *)
(***************************************************************************)
EmptyDict == [x \in {} |-> None]
Put(d, key, v) == [x \in (DOMAIN d) \cup {key} |-> IF x = key THEN v ELSE d[x]]
Del(d, key) == [x \in (DOMAIN d) \ {key} |-> d[x]]
\* dict.update
Update(d, e) == [x \in (DOMAIN d) \cup (DOMAIN e) |-> IF x \in DOMAIN e THEN e[x] ELSE d[x]]
\* dict.get(key), None when the key is absent
Get(d, key) == IF key \in DOMAIN d THEN d[key] ELSE None
\* dict.get(key, 0) for the counters
Get0(d, key) == IF key \in DOMAIN d THEN d[key] ELSE 0

(***************************************************************************)
(* Program constants: the field names, the choice sets of the keyboards.   *)
(***************************************************************************)
NUM == "Número da O.S."
\* the options of the choice keyboards, in the order of their buttons
CriticidadeSeq == <<"Emergencial", "Urgente", "Normal">>
TipoSeq == <<"Corretiva", "Preventiva">>
SituacaoSeq == <<"Pendente", "Aguardando Agendamento", "Agendado", "Concluído">>
Range(seq) == {seq[i] : i \in 1..Len(seq)}
Criticidades == Range(CriticidadeSeq)
Tipos == Range(TipoSeq)
Situacoes == Range(SituacaoSeq)
\* the control keys without the number of the order

\* the keys get_edit_keyboard leaves out
ControlKeys == {"created_at", "updated_at", "Lembrete", NUM}
\* the conversation states, in the order of the range(26) that numbers them
StateNames == <<"MENU", "PROMPT_OS_ID", "PROMPT_CHAMADO", "PROMPT_PREFIXO",
    "PROMPT_DISTANCIA", "PROMPT_DESCRICAO", "PROMPT_CRITICIDADE", "PROMPT_TIPO",
    "PROMPT_PRAZO", "PROMPT_SITUACAO", "PROMPT_TECNICO", "PROMPT_TECNICO_NOME",
    "RESUMO_INCLUSAO", "PROMPT_OS_UPDATE", "UPDATE_SELECTION", "PROMPT_UPDATE_FIELD",
    "PROMPT_OS_DELETE", "CONFIRM_DELETE", "LISTAR_TIPO", "LISTAR_SITUACAO",
    "LEMBRETE_MENU", "PROMPT_ID_LEMBRETE", "PROMPT_LEMBRETE_DATA",
    "PROMPT_LEMBRETE_MSG", "PROCESSAR_PDF", "AJUDA_GERAL">>
StateNum(name) == (CHOOSE i \in 1..Len(StateNames) : StateNames[i] = name) - 1
\* ConversationHandler.END: the chat has no conversation (also before /start)
END == "END"
\* what a handler "returns" when it returns None or raises: the state is kept
SAME == "SAME"

(***************************************************************************)
(* State.                                                                  *)
(***************************************************************************)
VARIABLES
    conv,       \* conv[s]: the ConversationHandler state of chat s
    user_data,  \* user_data[s]: context.user_data of chat s
    kb,         \* kb[s]: the payloads of the keyboard of the bot's last message to s
    store,      \* collection "ordens_servico": document id -> dict
    lembretes,  \* collection "lembretes_manuais": the documents added
    jobs,       \* the job queue: the run_once jobs not yet run
    now,        \* the clock, in ticks
    delivered,  \* reminder id -> number of times its message was sent
    alerts,     \* <<order, alert type, day>> -> number of times it was sent
    awaiting,   \* the handler that is suspended in an await after it has
                \* changed what the chat shows, a collection or the job
                \* queue: its chat (s = 0 when there is none), the place, the
                \* update it handles and its local variables
    storeUp,    \* whether Firestore answers (FALSE: every call raises)
    env,        \* what the process runs on: its libraries and its settings
    last        \* the update handled by the last step: [s, kind, data]

vars == <<conv, user_data, kb, store, lembretes, jobs, now, delivered, alerts,
          awaiting, storeUp, env, last>>

\* env.PDF_PROCESSOR_AVAILABLE: fitz and pandas were imported at start;
\* env.download_as_bytes: the telegram.File of the installed library has the
\* method processar_pdf calls; env.NOTIFICATION_CHAT_ID: the environment
\* variable of that name is set
Environments ==
    [PDF_PROCESSOR_AVAILABLE : BOOLEAN, download_as_bytes : BOOLEAN,
     NOTIFICATION_CHAT_ID : BOOLEAN]

\* the environments of a dialogue: the PDF processor missing, present with a
\* File that cannot download_as_bytes, present with one that can
DialogueEnvironments ==
    {e \in Environments : ~e.PDF_PROCESSOR_AVAILABLE => e.download_as_bytes}

\* fitz and pandas present, a File that can download_as_bytes,
\* NOTIFICATION_CHAT_ID not set
PlainEnvironment ==
    [PDF_PROCESSOR_AVAILABLE |-> TRUE, download_as_bytes |-> TRUE,
     NOTIFICATION_CHAT_ID |-> FALSE]

\* main() gets as far as the ConversationHandler and run_webhook. With
\* NOTIFICATION_CHAT_ID set it calls run_daily with datetime.timezone.utc,
\* where datetime is the class imported from the module of that name, and
\* the AttributeError ends the process before a handler is registered
Serving == ~env.NOTIFICATION_CHAT_ID

\* user_data after clear(): every key absent
UD0 == [os_kind |-> "absent", os_data |-> EmptyDict, current_step |-> "",
        is_new_os |-> FALSE, is_update |-> FALSE, editing_field |-> "",
        list_tipo |-> "", lembrete_dt |-> -1]

\* `not os_data` for the value of user_data.get('os_data')
NotOsData(ud) == ud.os_kind # "dict" \/ DOMAIN ud.os_data = {}

\* no handler is suspended. Of a suspended handler: s its chat, at the await
\* it is in, kind and data the update it handles, ok whether no exception was
\* raised in its try, x a local variable
NotAwaiting == [s |-> 0, at |-> "", kind |-> "", data |-> <<>>, ok |-> TRUE, x |-> <<>>]

\* the state after main() has built the application: no conversation yet
\* in any of the chats, the queue without jobs, orders the orders in Firestore
InitWith(chats, orders) ==
    /\ conv = [s \in chats |-> END]
    /\ user_data = [s \in chats |-> UD0]
    /\ kb = [s \in chats |-> {}]
    /\ store = orders
    /\ lembretes = {}
    /\ jobs = {}
    /\ now = 0
    /\ delivered = EmptyDict
    /\ alerts = EmptyDict
    /\ awaiting = NotAwaiting
    /\ storeUp = TRUE
    /\ last = [s |-> 0, kind |-> "init", data |-> <<>>]

\* the chats of the specifications: one operator, or NumSessions at once
OneChat == {1}
Sessions == 1..NumSessions

Init == InitWith(OneChat, EmptyDict) /\ env \in DialogueEnvironments

(***************************************************************************)
(* Keyboards.                                                              *)
(***************************************************************************)
\* get_main_menu_keyboard
MainMenuKeyboard == {<<"incluir", "os">>, <<"atualizar", "os">>, <<"deletar", "os">>,
    <<"listar", "os">>, <<"enviar", "pdf">>, <<"lembrete", "menu">>, <<"ajuda", "geral">>}
MenuButton == {<<"menu">>}
ResumoKeyboard == {<<"edit", "resumo">>, <<"confirm", "save">>, <<"cancel">>}

\* get_edit_keyboard: one button per key of os_data that is not a control key
EditButton(os_data, key) ==
    IF key = "Técnico" /\ Get(os_data, "Técnico") = Str("Não Definido")
    THEN <<"edit", "Técnico", "nao", "definido">>
    ELSE IF key \in {"Criticidade", "Tipo", "Situação"}
    THEN <<"edit", "select", key>>
    ELSE <<"edit", "field", key>>

get_edit_keyboard(os_data) ==
    {EditButton(os_data, key) : key \in (DOMAIN os_data) \ ControlKeys}
        \cup {<<"confirm", "save">>, <<"menu">>}

(***************************************************************************)
(* format_os_data: the text of each line of the summary.                   *)
(***************************************************************************)
\* str(v) of a field value inside the f-string (the ISO text of a datetime is
\* written as its tick)
PyStr(v) == IF v.k = "str" THEN v.s ELSE IF v.k = "dt" THEN ToString(v.d) ELSE "None"

\* prazo_str and agendamento_str: strftime('%d/%m/%Y') of a datetime; a text
\* that is not empty is tried as '%Y-%m-%d' (none of the texts here parses)
\* and shown as it is when that raises; None and '' give 'Não informado'
date_str(v) ==
    IF v.k = "dt" THEN DateNames[(v.d \div DayLen) + 1]
    ELSE IF v.k = "str" /\ v.s # "" THEN v.s
    ELSE "Não informado"

format_os_data(os_data) ==
    [x \in {NUM, "Chamado", "Prefixo/Dependência", "Distância", "Descrição", "Criticidade",
            "Tipo", "Prazo", "Situação", "Técnico", "Agendamento", "Lembrete"} |->
        CASE x \in {"Prazo", "Agendamento"} -> date_str(Get(os_data, x))
          [] x \in DOMAIN os_data -> PyStr(os_data[x])
          [] x = "Situação" -> "Pendente"
          [] x = "Técnico" -> "Não Definido"
          [] x = "Lembrete" -> "Nenhum agendado"
          [] OTHER -> "N/A"]

(***************************************************************************)
(* Firestore.                                                              *)
(***************************************************************************)
\* a reference with an id generated per write, as collection.add would give
get_os_ref_generated(os_number) == os_number \o "#" \o ToString(Cardinality(DOMAIN store))

\* get_os_ref: the id of the document of an order, str(os_number)
get_os_ref(os_number) == os_number

\* fetch_os_by_number: [found, data]; a failed read is reported as "not found"
fetch_os_by_number(os_number) ==
    IF storeUp /\ get_os_ref(os_number) \in DOMAIN store
    THEN [found |-> TRUE, data |-> Put(store[get_os_ref(os_number)], NUM, Str(os_number))]
    ELSE [found |-> FALSE, data |-> EmptyDict]

(***************************************************************************)
(* The effect of a handler on its chat: the state it returns, the          *)
(* user_data it leaves and the keyboard of its reply.                      *)
(***************************************************************************)
\* the handler returned st after a last message with the keyboard keys
Res(st, ud, keys) == [st |-> st, ud |-> ud, sent |-> TRUE, kb |-> keys]
\* the handler raised before sending anything: the state is kept
Raise(ud) == [st |-> SAME, ud |-> ud, sent |-> FALSE, kb |-> {}]

Reply(s, r) ==
    /\ conv' = [conv EXCEPT ![s] = IF r.st = SAME THEN @ ELSE r.st]
    /\ user_data' = [user_data EXCEPT ![s] = r.ud]
    /\ kb' = [kb EXCEPT ![s] = IF r.sent THEN r.kb ELSE @]

\* the application takes the next update once the handler of the one before
\* has returned (the Application is built without concurrent_updates)
Input(s, kind, data) ==
    /\ awaiting.s = 0
    /\ last' = [s |-> s, kind |-> kind, data |-> data]

\* the handler suspended in chat s at the await named at goes on, to its
\* next await (kind "resume") or to its return (kind "return")
Resumes(s, at, kind) ==
    /\ awaiting.s = s /\ awaiting.at = at
    /\ last' = [s |-> s, kind |-> kind, data |-> awaiting.data]

\* the suspended handler sends its last message and returns
Returns(s, at, r) ==
    /\ Resumes(s, at, "return")
    /\ awaiting' = NotAwaiting
    /\ Reply(s, r)

Dialogue == <<store, lembretes, jobs, now, delivered, alerts, awaiting, storeUp, env>>

(***************************************************************************)
(* Navigation.                                                             *)
(***************************************************************************)
\* start: shows the main menu and clears user_data
start(ud) == Res("MENU", UD0, MainMenuKeyboard)

\* cancel (the /cancel command): clears user_data and ends the conversation
cancel(ud) == Res(END, UD0, {})

(***************************************************************************)
(* The summary.                                                            *)
(***************************************************************************)
\* the defaults show_resumo_inclusao writes into os_data before rendering
ResumoDefaults(d) ==
    LET d1 == IF "Lembrete" \in DOMAIN d THEN d ELSE Put(d, "Lembrete", Str("Nenhum"))
    IN IF "Situação" \in DOMAIN d1 THEN d1 ELSE Put(d1, "Situação", Str("Pendente"))

\* show_resumo_inclusao from the point where the summary is rendered
RenderResumo(ud) ==
    IF ud.os_kind = "none" THEN Raise(ud)     \* 'Lembrete' not in None raises
    ELSE IF ud.os_kind = "absent" THEN Res("RESUMO_INCLUSAO", ud, ResumoKeyboard)
    ELSE Res("RESUMO_INCLUSAO", [ud EXCEPT !.os_data = ResumoDefaults(@)], ResumoKeyboard)

\* show_resumo_inclusao that keeps an Agendamento it cannot parse as text
show_resumo_inclusao_unparsed(ud, isMessage, text) ==
    IF ud.current_step = "" THEN Raise(ud)
    ELSE IF ud.current_step = "RESUMO_INCLUSAO" /\ isMessage
    THEN IF ud.os_kind # "dict" THEN Raise(ud)
         ELSE IF IsNA(text)
         THEN RenderResumo([ud EXCEPT !.os_data = Put(@, "Agendamento", Str("Não Informado"))])
         ELSE IF StrptimeDMY(text) >= 0
         THEN RenderResumo([ud EXCEPT !.os_data = Put(@, "Agendamento", Dt(StrptimeDMY(text)))])
         ELSE RenderResumo([ud EXCEPT !.os_data = Put(@, "Agendamento", Str(text))])
    ELSE RenderResumo(ud)

\* show_resumo_inclusao; isMessage: the update is a text message, text its text
show_resumo_inclusao(ud, isMessage, text) ==
    IF ud.current_step = "" THEN Raise(ud)    \* KeyError: 'current_step'
    ELSE IF ud.current_step = "RESUMO_INCLUSAO" /\ isMessage
    THEN IF ~IsNA(text) /\ StrptimeDMY(text) < 0 THEN Res("RESUMO_INCLUSAO", ud, {})
         ELSE IF ud.os_kind # "dict" THEN Raise(ud)
         ELSE IF IsNA(text)
         THEN RenderResumo([ud EXCEPT !.os_data = Put(@, "Agendamento", Str("Não Informado"))])
         ELSE RenderResumo([ud EXCEPT !.os_data = Put(@, "Agendamento", Dt(StrptimeDMY(text)))])
    ELSE RenderResumo(ud)

\* the shared tail "if editing_field: del editing_field; return show_resumo"
\* (the confirmation "Campo ... atualizado" is sent first, without a keyboard)
BackToResumo(ud, isMessage, text) ==
    LET r == show_resumo_inclusao([ud EXCEPT !.editing_field = ""], isMessage, text)
    IN IF r.sent THEN r ELSE [r EXCEPT !.sent = TRUE]

(***************************************************************************)
(* The Create flow.                                                        *)
(***************************************************************************)
start_incluir_os(ud) ==
    Res("PROMPT_OS_ID",
        [ud EXCEPT !.os_kind = "dict", !.os_data = EmptyDict,
                   !.current_step = "PROMPT_OS_ID", !.is_new_os = TRUE],
        MenuButton)

prompt_prefixo(ud, text) ==
    LET ud1 == IF ud.is_new_os THEN ud
               ELSE [ud EXCEPT !.os_data = Put(@, "Prefixo/Dependência", Str(text))]
    IN IF ~ud.is_new_os /\ ud.os_kind # "dict"
       THEN Raise(ud)                     \* no os_data to write to
       ELSE IF ~ud.is_new_os /\ ud.editing_field # ""
       THEN BackToResumo(ud1, TRUE, text)
       ELSE Res("PROMPT_CHAMADO", [ud1 EXCEPT !.current_step = "PROMPT_CHAMADO"],
                {<<"back", "PROMPT", "OS", "ID">>})

\* prompt_os_id without the existence check
prompt_os_id_unchecked(ud, os_number) ==
    IF ~IsDigit(os_number) THEN Res("PROMPT_OS_ID", ud, {})
    ELSE IF ud.os_kind # "dict" THEN Raise(ud)
    ELSE prompt_prefixo(
            [ud EXCEPT !.os_data = Put(@, NUM, Str(os_number)), !.is_new_os = TRUE],
            os_number)

prompt_os_id(ud, os_number) ==
    IF ~IsDigit(os_number) THEN Res("PROMPT_OS_ID", ud, {})
    ELSE LET f == fetch_os_by_number(os_number)
         IN IF f.found
            THEN Res("MENU", [ud EXCEPT !.os_kind = "dict", !.os_data = f.data],
                     {<<"update", "existing", os_number>>, <<"cancel">>, <<"menu">>})
            ELSE IF ud.os_kind # "dict" THEN Raise(ud)
            ELSE prompt_prefixo(
                    [ud EXCEPT !.os_data = Put(@, NUM, Str(os_number)), !.is_new_os = TRUE],
                    os_number)

prompt_next_field(ud, text, next_state, field_name) ==
    IF ud.current_step = "" THEN Raise(ud)        \* KeyError: 'current_step'
    ELSE IF ud.current_step # "PROMPT_OS_ID" /\ ud.os_kind # "dict" THEN Raise(ud)
    ELSE LET ud1 == IF ud.current_step # "PROMPT_OS_ID"
                    THEN [ud EXCEPT !.os_data = Put(@, field_name, Str(text))]
                    ELSE ud
         IN IF ud1.editing_field # "" THEN BackToResumo(ud1, TRUE, text)
            ELSE Res(next_state, [ud1 EXCEPT !.current_step = next_state],
                     {<<"back", ToString(StateNum(next_state))>>})

\* prompt_chamado that files the typed text under 'Número da O.S.'
prompt_chamado_as_number(ud, text) == prompt_next_field(ud, text, "PROMPT_PREFIXO", NUM)
prompt_chamado(ud, text) == prompt_next_field(ud, text, "PROMPT_PREFIXO", "Chamado")
prompt_distancia(ud, text) ==
    prompt_next_field(ud, text, "PROMPT_DISTANCIA", "Prefixo/Dependência")
prompt_descricao(ud, text) == prompt_next_field(ud, text, "PROMPT_DESCRICAO", "Distância")

prompt_criticidade(ud, text) ==
    IF ud.os_kind # "dict" THEN Raise(ud)
    ELSE LET ud1 == [ud EXCEPT !.os_data = Put(@, "Descrição", Str(text))]
         IN IF ud1.editing_field # "" THEN BackToResumo(ud1, TRUE, text)
            ELSE Res("PROMPT_CRITICIDADE", [ud1 EXCEPT !.current_step = "PROMPT_CRITICIDADE"],
                     {<<"criticidade", c>> : c \in Criticidades}
                        \cup {<<"back", "PROMPT", "DESCRICAO">>})

\* value = query.data.split('_')[1]
prompt_tipo(ud, data) ==
    IF ud.os_kind # "dict" THEN Raise(ud)
    ELSE LET ud1 == [ud EXCEPT !.os_data = Put(@, "Criticidade", Str(data[2]))]
         IN IF ud1.editing_field # "" THEN BackToResumo(ud1, FALSE, "")
            ELSE Res("PROMPT_TIPO", [ud1 EXCEPT !.current_step = "PROMPT_TIPO"],
                     {<<"tipo", t>> : t \in Tipos} \cup {<<"back", "PROMPT", "CRITICIDADE">>})

prompt_prazo(ud, data) ==
    IF ud.os_kind # "dict" THEN Raise(ud)
    ELSE LET ud1 == [ud EXCEPT !.os_data = Put(@, "Tipo", Str(data[2]))]
         IN IF ud1.editing_field # "" THEN BackToResumo(ud1, FALSE, "")
            ELSE Res("PROMPT_PRAZO", [ud1 EXCEPT !.current_step = "PROMPT_PRAZO"],
                     {<<"back", "PROMPT", "TIPO">>})

\* prompt_situacao that keeps the typed Prazo as text, parsed or not
prompt_situacao_unparsed(ud, text) ==
    IF ud.os_kind # "dict" THEN Raise(ud)
    ELSE LET ud1 == [ud EXCEPT !.os_data = Put(@, "Prazo", Str(text))]
         IN IF ud1.editing_field # "" THEN BackToResumo(ud1, TRUE, text)
            ELSE Res("PROMPT_SITUACAO", [ud1 EXCEPT !.current_step = "PROMPT_SITUACAO"],
                     {<<"situacao", x>> : x \in Situacoes} \cup {<<"back", "PROMPT", "PRAZO">>})

prompt_situacao(ud, text) ==
    IF StrptimeDMY(text) < 0 THEN Res("PROMPT_PRAZO", ud, {})
    ELSE IF ud.os_kind # "dict" THEN Raise(ud)
    ELSE LET ud1 == [ud EXCEPT !.os_data = Put(@, "Prazo", Dt(StrptimeDMY(text)))]
         IN IF ud1.editing_field # "" THEN BackToResumo(ud1, TRUE, text)
            ELSE Res("PROMPT_SITUACAO", [ud1 EXCEPT !.current_step = "PROMPT_SITUACAO"],
                     {<<"situacao", x>> : x \in Situacoes} \cup {<<"back", "PROMPT", "PRAZO">>})

prompt_tecnico(ud, data) ==
    IF ud.os_kind # "dict" THEN Raise(ud)
    ELSE LET ud1 == [ud EXCEPT !.os_data = Put(@, "Situação", Str(data[2]))]
         IN IF ud1.editing_field # "" THEN BackToResumo(ud1, FALSE, "")
            ELSE Res("PROMPT_TECNICO", [ud1 EXCEPT !.current_step = "PROMPT_TECNICO"],
                     {<<"tecnico", "definido">>, <<"tecnico", "nao", "definido">>,
                      <<"back", "PROMPT", "SITUACAO">>})

\* selection = query.data.split('_')[1]
handle_tecnico_selection(ud, data) ==
    IF data[2] = "nao"
    THEN IF ud.os_kind # "dict" THEN Raise(ud)
         ELSE LET ud1 == [ud EXCEPT !.os_data = Put(Put(@, "Técnico", Str("Não Definido")),
                                                    "Agendamento", Str("Não Informado"))]
              IN IF ud1.editing_field # "" THEN BackToResumo(ud1, FALSE, "")
                 ELSE show_resumo_inclusao(ud1, FALSE, "")
    ELSE IF data[2] = "definido"
    THEN Res("PROMPT_TECNICO_NOME", [ud EXCEPT !.current_step = "PROMPT_TECNICO_NOME"],
             {<<"back", "PROMPT", "TECNICO">>})
    ELSE Raise(ud)

prompt_agendamento(ud, text) ==
    IF ud.os_kind # "dict" THEN Raise(ud)
    ELSE LET ud1 == [ud EXCEPT !.os_data = Put(@, "Técnico", Str(text))]
         IN IF ud1.editing_field = "Técnico" THEN BackToResumo(ud1, TRUE, text)
            ELSE Res("RESUMO_INCLUSAO", [ud1 EXCEPT !.current_step = "RESUMO_INCLUSAO"],
                     {<<"back", "PROMPT", "TECNICO", "NOME">>})

(***************************************************************************)
(* Field editing.                                                          *)
(***************************************************************************)
\* start_edit_resumo; isCallback: the update carries a callback query.  With a
\* text message update.callback_query is None and query.answer() raises.
start_edit_resumo(ud, isCallback) ==
    IF ~isCallback THEN Raise(ud)
    ELSE IF NotOsData(ud) THEN Res("MENU", ud, MenuButton)
    ELSE Res("UPDATE_SELECTION", ud, get_edit_keyboard(ud.os_data))

\* handle_edit_selection: data = query.data.split('_'), action = data[0],
\* field_name = data[1] (here data[1] and data[2]: sequences start at 1)
handle_edit_selection(ud, data) ==
    LET ud1 == [ud EXCEPT !.editing_field = data[2]]
    IN IF data[1] = "edit" /\ data[2] = "Técnico" THEN handle_tecnico_selection(ud1, data)
       ELSE IF data[1] = "edit_select"
       THEN IF data[2] \in {"Criticidade", "Situação"} THEN Raise(ud1)  \* update.message is None
            ELSE IF data[2] = "Tipo" THEN prompt_tipo(ud1, data)
            ELSE Raise(ud1)
       ELSE IF data[1] = "edit_field"
       THEN Res("PROMPT_UPDATE_FIELD", ud1, {<<"show", "resumo">>})
       ELSE Raise(ud1)      \* no branch taken: returns None, nothing is sent

\* handle_update_field_input, the handler of PROMPT_UPDATE_FIELD. No press of
\* the edit keyboard makes handle_edit_selection return that state, so no
\* step of the program applies it
handle_update_field_input(ud, text) ==
    LET field_name == ud.editing_field
    IN IF field_name = "" THEN BackToResumo(ud, TRUE, text)
       ELSE IF field_name \in {"Prazo", "Agendamento"}
               /\ ~(field_name = "Agendamento" /\ IsNA(text)) /\ StrptimeDMY(text) < 0
       THEN Res("PROMPT_UPDATE_FIELD", ud, {})
       ELSE IF ud.os_kind # "dict" THEN Raise(ud)
       ELSE IF field_name \in {"Prazo", "Agendamento"}
       THEN IF field_name = "Agendamento" /\ IsNA(text)
            THEN BackToResumo([ud EXCEPT !.os_data = Put(@, "Agendamento", Str("Não Informado"))],
                              TRUE, text)
            ELSE IF StrptimeDMY(text) >= 0
            THEN BackToResumo([ud EXCEPT !.os_data = Put(@, field_name, Dt(StrptimeDMY(text)))],
                              TRUE, text)
            ELSE Res("PROMPT_UPDATE_FIELD", ud, {})
       ELSE BackToResumo([ud EXCEPT !.os_data = Put(@, field_name, Str(text))], TRUE, text)

(***************************************************************************)
(* The Update and Delete lookups.                                          *)
(***************************************************************************)
start_atualizar_os(ud) == Res("PROMPT_OS_UPDATE", ud, MenuButton)

\* prompt_os_update that gives the lookup up on a miss
prompt_os_update_once(ud, os_number) ==
    IF ~IsDigit(os_number) THEN Res("PROMPT_OS_UPDATE", ud, {})
    ELSE LET f == fetch_os_by_number(os_number)
         IN IF ~f.found THEN Res("MENU", UD0, MainMenuKeyboard)
            ELSE start_edit_resumo(
                    [ud EXCEPT !.os_kind = "dict", !.os_data = f.data, !.is_update = TRUE],
                    FALSE)

prompt_os_update(ud, os_number) ==
    IF ~IsDigit(os_number) THEN Res("PROMPT_OS_UPDATE", ud, {})
    ELSE LET f == fetch_os_by_number(os_number)
         IN IF ~f.found THEN Res("PROMPT_OS_UPDATE", ud, MenuButton)
            ELSE start_edit_resumo(
                    [ud EXCEPT !.os_kind = "dict", !.os_data = f.data, !.is_update = TRUE],
                    FALSE)

\* callback_handler, branch data.startswith("update_existing_")
update_existing(ud, data) ==
    LET os_number == data[Len(data)]
        ud1 == IF NotOsData(ud) \/ Get(ud.os_data, NUM) # Str(os_number)
               THEN LET f == fetch_os_by_number(os_number)
                    IN IF f.found THEN [ud EXCEPT !.os_kind = "dict", !.os_data = f.data]
                       ELSE [ud EXCEPT !.os_kind = "none", !.os_data = EmptyDict]
               ELSE ud
    IN start_edit_resumo([ud1 EXCEPT !.is_update = TRUE], TRUE)

start_deletar_os(ud) == Res("PROMPT_OS_DELETE", ud, MenuButton)

prompt_os_delete(ud, os_number) ==
    IF ~IsDigit(os_number) THEN Res("PROMPT_OS_DELETE", ud, {})
    ELSE LET f == fetch_os_by_number(os_number)
         IN IF ~f.found THEN Res("PROMPT_OS_DELETE", ud, MenuButton)
            ELSE Res("CONFIRM_DELETE", [ud EXCEPT !.os_kind = "dict", !.os_data = f.data],
                     {<<"confirm", "delete", os_number>>, <<"menu">>})

(***************************************************************************)
(* Listing (read-only).                                                    *)
(***************************************************************************)
start_listar_os(ud) ==
    Res("LISTAR_TIPO", ud,
        {<<"list", "tipo", t>> : t \in Tipos \cup {"Todas"}} \cup MenuButton)

\* tipo = query.data.split('_')[2]
prompt_listar_situacao(ud, data) ==
    Res("LISTAR_SITUACAO", [ud EXCEPT !.list_tipo = data[3]],
        {<<"list", "situacao", x>> : x \in Situacoes \cup {"Todas"}} \cup {<<"list", "os">>})

execute_listagem(ud, data) ==
    IF ud.list_tipo = "" THEN Raise(ud) ELSE Res("MENU", UD0, MenuButton)

(***************************************************************************)
(* Reminders: the dialogue.                                                *)
(***************************************************************************)
start_enviar_pdf(ud) ==
    IF ~env.PDF_PROCESSOR_AVAILABLE THEN Res("MENU", ud, MenuButton)
    ELSE Res("PROCESSAR_PDF", ud, MenuButton)
ajuda_geral(ud) == Res("AJUDA_GERAL", ud, MenuButton)
start_lembrete(ud) == Res("LEMBRETE_MENU", ud, {<<"lembrete", "manual", "start">>, <<"menu">>})
start_lembrete_manual(ud) == Res("PROMPT_ID_LEMBRETE", ud, MenuButton)

prompt_lembrete_data(ud, os_number) ==
    IF ~IsDigit(os_number) THEN Res("PROMPT_ID_LEMBRETE", ud, {})
    ELSE LET f == fetch_os_by_number(os_number)
         IN IF ~f.found THEN Res("PROMPT_ID_LEMBRETE", ud, MenuButton)
            ELSE Res("PROMPT_LEMBRETE_DATA", [ud EXCEPT !.os_kind = "dict", !.os_data = f.data],
                     {<<"lembrete", "manual", "start">>})

\* prompt_lembrete_msg without the comparison with datetime.now()
prompt_lembrete_msg_any_time(ud, text) ==
    LET lembrete_dt == StrptimeDMYHM(text)
    IN IF lembrete_dt < 0 THEN Res("PROMPT_LEMBRETE_DATA", ud, {})
       ELSE Res("PROMPT_LEMBRETE_MSG", [ud EXCEPT !.lembrete_dt = lembrete_dt],
                {<<"lembrete", "manual", "start">>})

prompt_lembrete_msg(ud, text) ==
    LET lembrete_dt == StrptimeDMYHM(text)
    IN IF lembrete_dt < 0 THEN Res("PROMPT_LEMBRETE_DATA", ud, {})
       ELSE IF lembrete_dt < now THEN Res("PROMPT_LEMBRETE_DATA", ud, {})
       ELSE Res("PROMPT_LEMBRETE_MSG", [ud EXCEPT !.lembrete_dt = lembrete_dt],
                {<<"lembrete", "manual", "start">>})

(***************************************************************************)
(* Inputs: what the operators type and press.                              *)
(***************************************************************************)
IdInputs == Ids \cup {"abc"}
TypedDates == {DateNames[d + 1] : d \in TypedDays}
\* the first MaxChoice options of a choice keyboard
Press(seq) == {seq[i] : i \in 1..Min(MaxChoice, Len(seq))}
\* the text of the uploaded PDF, as the labelled values the patterns can find
PdfFull(n) == [x \in {NUM, "Chamado", "Prefixo/Dependência", "Distância", "Descrição",
                      "Criticidade", "Tipo", "Prazo"} |->
    CASE x = NUM -> n
      [] x = "Chamado" -> "CH-1"
      [] x = "Distância" -> "-"
      [] x = "Criticidade" -> "Urgente"
      [] x = "Tipo" -> "Corretiva"
      [] x = "Prazo" -> DateNames[1]
      [] OTHER -> TextNames[1]]
PdfBare(n) == [x \in {NUM} |-> n]
PdfNoNumber == [x \in {"Chamado"} |-> "CH-1"]
PdfInputs == {PdfFull(n) : n \in Ids} \cup {PdfBare(n) : n \in Ids} \cup {PdfNoNumber}

(***************************************************************************)
(* Steps of the dialogue that touch only the chat.                         *)
(***************************************************************************)
Chat(s, st, kind, data, r) ==
    /\ conv[s] = st
    /\ Reply(s, r)
    /\ Input(s, kind, data)
    /\ UNCHANGED Dialogue

\* entry point: /start when the chat has no conversation
Start(s) ==
    /\ Serving
    /\ Chat(s, END, "cmd", <<"start">>, start(user_data[s]))

\* /cancel that also takes the chat's reminder jobs off the queue
CancelDroppingJobs(s) ==
    /\ conv[s] # END
    /\ Reply(s, cancel(user_data[s]))
    /\ Input(s, "cmd", <<"cancel">>)
    /\ jobs' = {j \in jobs : j.chat_id # s}
    /\ UNCHANGED <<store, lembretes, now, delivered, alerts, awaiting, storeUp, env>>

\* /cancel taken only where the main menu is showing
CancelInMenuOnly(s) ==
    /\ conv[s] = "MENU"
    /\ Chat(s, conv[s], "cmd", <<"cancel">>, cancel(user_data[s]))

\* fallbacks: /cancel in any state of a conversation
Cancel(s) ==
    /\ conv[s] # END
    /\ Chat(s, conv[s], "cmd", <<"cancel">>, cancel(user_data[s]))

\* fallbacks: payload 'menu', in every state whose own handlers do not take it
MenuCallback(s) ==
    /\ conv[s] \notin {END, "CONFIRM_DELETE"}
    /\ Chat(s, conv[s], "cb", <<"menu">>, start(user_data[s]))

\* state MENU, the main menu: callback_handler
MenuChoice(s, data) ==
    Chat(s, "MENU", "cb", data,
         CASE data = <<"incluir", "os">> -> start_incluir_os(user_data[s])
           [] data = <<"atualizar", "os">> -> start_atualizar_os(user_data[s])
           [] data = <<"deletar", "os">> -> start_deletar_os(user_data[s])
           [] data = <<"listar", "os">> -> start_listar_os(user_data[s])
           [] data = <<"enviar", "pdf">> -> start_enviar_pdf(user_data[s])
           [] data = <<"lembrete", "menu">> -> start_lembrete(user_data[s])
           [] data = <<"ajuda", "geral">> -> ajuda_geral(user_data[s]))

\* state MENU, pattern '^update_existing_': callback_handler
UpdateExisting(s, n) ==
    Chat(s, "MENU", "cb", <<"update", "existing", n>>,
         update_existing(user_data[s], <<"update", "existing", n>>))

PromptOsId(s, text) == Chat(s, "PROMPT_OS_ID", "text", <<text>>, prompt_os_id(user_data[s], text))
PromptChamado(s, text) ==
    Chat(s, "PROMPT_CHAMADO", "text", <<text>>, prompt_chamado(user_data[s], text))
PromptDistancia(s, text) ==
    Chat(s, "PROMPT_PREFIXO", "text", <<text>>, prompt_distancia(user_data[s], text))
PromptDescricao(s, text) ==
    Chat(s, "PROMPT_DISTANCIA", "text", <<text>>, prompt_descricao(user_data[s], text))
PromptCriticidade(s, text) ==
    Chat(s, "PROMPT_DESCRICAO", "text", <<text>>, prompt_criticidade(user_data[s], text))
PromptTipo(s, c) ==
    Chat(s, "PROMPT_CRITICIDADE", "cb", <<"criticidade", c>>,
         prompt_tipo(user_data[s], <<"criticidade", c>>))
PromptPrazo(s, t) ==
    Chat(s, "PROMPT_TIPO", "cb", <<"tipo", t>>, prompt_prazo(user_data[s], <<"tipo", t>>))
PromptSituacao(s, text) ==
    Chat(s, "PROMPT_PRAZO", "text", <<text>>, prompt_situacao(user_data[s], text))
PromptTecnico(s, x) ==
    Chat(s, "PROMPT_SITUACAO", "cb", <<"situacao", x>>,
         prompt_tecnico(user_data[s], <<"situacao", x>>))
HandleTecnicoSelection(s, data) ==
    Chat(s, "PROMPT_TECNICO", "cb", data, handle_tecnico_selection(user_data[s], data))
PromptAgendamento(s, text) ==
    Chat(s, "PROMPT_TECNICO_NOME", "text", <<text>>, prompt_agendamento(user_data[s], text))

\* state RESUMO_INCLUSAO, a text message
ShowResumoInclusao(s, text) ==
    Chat(s, "RESUMO_INCLUSAO", "text", <<text>>, show_resumo_inclusao(user_data[s], TRUE, text))
\* state RESUMO_INCLUSAO, payload 'edit_resumo': callback_handler
EditResumo(s) ==
    Chat(s, "RESUMO_INCLUSAO", "cb", <<"edit", "resumo">>, start_edit_resumo(user_data[s], TRUE))
\* state RESUMO_INCLUSAO, payload 'cancel': callback_handler has no branch for
\* it and falls through to "Opção não reconhecida", return MENU
ResumoCancel(s) ==
    /\ conv[s] = "RESUMO_INCLUSAO"
    /\ conv' = [conv EXCEPT ![s] = "MENU"]
    /\ Input(s, "cb", <<"cancel">>)
    /\ UNCHANGED <<user_data, kb, Dialogue>>

\* state UPDATE_SELECTION: handle_edit_selection takes the field buttons and
\* also 'confirm_save' and 'show_resumo'
HandleEditSelection(s, data) ==
    Chat(s, "UPDATE_SELECTION", "cb", data, handle_edit_selection(user_data[s], data))

PromptOsUpdate(s, text) ==
    Chat(s, "PROMPT_OS_UPDATE", "text", <<text>>, prompt_os_update(user_data[s], text))
PromptOsDelete(s, text) ==
    Chat(s, "PROMPT_OS_DELETE", "text", <<text>>, prompt_os_delete(user_data[s], text))

PromptListarSituacao(s, t) ==
    Chat(s, "LISTAR_TIPO", "cb", <<"list", "tipo", t>>,
         prompt_listar_situacao(user_data[s], <<"list", "tipo", t>>))
ExecuteListagem(s, x) ==
    Chat(s, "LISTAR_SITUACAO", "cb", <<"list", "situacao", x>>,
         execute_listagem(user_data[s], <<"list", "situacao", x>>))

StartLembreteManual(s) ==
    Chat(s, "LEMBRETE_MENU", "cb", <<"lembrete", "manual", "start">>,
         start_lembrete_manual(user_data[s]))
PromptLembreteData(s, text) ==
    Chat(s, "PROMPT_ID_LEMBRETE", "text", <<text>>, prompt_lembrete_data(user_data[s], text))
PromptLembreteMsg(s, text) ==
    Chat(s, "PROMPT_LEMBRETE_DATA", "text", <<text>>, prompt_lembrete_msg(user_data[s], text))

\* fallbacks: any other command (also /start inside a conversation):
\* fallback_command answers and returns None
FallbackCommand(s) ==
    /\ conv[s] # END
    /\ Chat(s, conv[s], "cmd", <<"other">>, Res(SAME, user_data[s], {}))

(***************************************************************************)
(* Steps of the dialogue that write the store.                             *)
(***************************************************************************)
\* a save that writes the number and the timestamps only
SaveDocNumberOnly(os_data) ==
    Put(Put(Put(EmptyDict, NUM, Get(os_data, NUM)), "created_at", Dt(now)), "updated_at", Dt(now))

\* the document save_os_to_firestore writes for os_data
SaveDoc(os_data) ==
    LET d1 == IF Get(os_data, "Lembrete") = Str("Nenhum") /\ "Lembrete" \in DOMAIN os_data
              THEN Del(os_data, "Lembrete") ELSE os_data
    IN Put(Put(d1, "created_at", Dt(now)), "updated_at", Dt(now))

\* state RESUMO_INCLUSAO, payload 'confirm_save': save_os_to_firestore up to
\* the await of its call of os_ref.set. The timestamps go into os_data, which
\* is the dict of user_data, before the call
SaveOsToFirestore(s) ==
    LET ud == user_data[s]
        os_number == Get(ud.os_data, NUM)
    IN /\ conv[s] = "RESUMO_INCLUSAO"
       /\ Input(s, "cb", <<"confirm", "save">>)
       /\ UNCHANGED <<lembretes, jobs, now, delivered, alerts, storeUp, env>>
       /\ IF ud.os_kind # "dict"                      \* None.get raises
          THEN Reply(s, Raise(ud)) /\ UNCHANGED <<store, awaiting>>
          ELSE IF DOMAIN ud.os_data = {} \/ ~Truthy(os_number)
          THEN Reply(s, Res(END, UD0, {})) /\ UNCHANGED <<store, awaiting>>
          ELSE /\ user_data' = [user_data EXCEPT ![s].os_data = SaveDoc(ud.os_data)]
               /\ awaiting' = [s |-> s, at |-> "save_os_to_firestore:set", kind |-> "cb",
                          data |-> <<"confirm", "save">>,
                          ok |-> TRUE, x |-> <<>>]
               /\ UNCHANGED <<conv, kb, store>>

\* save_os_to_firestore from its call of os_ref.set, which writes os_data
\* under the number of the order or raises, to the await of the
\* edit_message_text that follows (of the success or of the error)
SaveOsToFirestoreStored(s) ==
    LET os_data == user_data[s].os_data
    IN /\ Resumes(s, "save_os_to_firestore:set", "resume")
       /\ store' = IF storeUp THEN Put(store, get_os_ref(os_data[NUM].s), os_data) ELSE store
       /\ awaiting' = [awaiting EXCEPT !.at = "save_os_to_firestore", !.ok = storeUp]
       /\ UNCHANGED <<conv, user_data, kb, lembretes, jobs, now, delivered, alerts, storeUp,
                      env>>

\* save_os_to_firestore from its edit_message_text to its return: the menu
\* button, user_data cleared, MENU
SaveOsToFirestoreReplied(s) ==
    /\ Returns(s, "save_os_to_firestore", Res("MENU", UD0, MenuButton))
    /\ UNCHANGED <<store, lembretes, jobs, now, delivered, alerts, storeUp, env>>

\* state CONFIRM_DELETE, patterns '^confirm_delete_' and '^menu$':
\* confirm_delete up to the await of edit_message_text that follows its call
\* of os_ref.delete
ConfirmDelete(s, data) ==
    LET ud == user_data[s]
    IN /\ conv[s] = "CONFIRM_DELETE"
       /\ Input(s, "cb", data)
       /\ UNCHANGED <<lembretes, jobs, now, delivered, alerts, storeUp, env>>
       /\ IF ud.os_kind # "dict" \/ NUM \notin DOMAIN ud.os_data
          THEN Reply(s, Raise(ud)) /\ UNCHANGED <<store, awaiting>>
          ELSE /\ store' = IF storeUp THEN Del(store, get_os_ref(ud.os_data[NUM].s)) ELSE store
               /\ awaiting' = [s |-> s, at |-> "confirm_delete", kind |-> "cb",
                          data |-> data,
                          ok |-> storeUp, x |-> <<>>]
               /\ UNCHANGED <<conv, user_data, kb>>

\* confirm_delete from its edit_message_text to its return
ConfirmDeleteReplied(s) ==
    /\ Returns(s, "confirm_delete", Res("MENU", UD0, MenuButton))
    /\ UNCHANGED <<store, lembretes, jobs, now, delivered, alerts, storeUp, env>>

\* limpar_valor_bruto on a captured value (of the values the model feeds it,
\* the pattern and the tuple reject these)
limpar_valor_bruto(v) == IF v \in {"()", "-", "(", ""} THEN None ELSE Str(v)

\* extrair_dados_pdf_bytes: one entry per pattern, None where it finds nothing
\* (tratar_texto leaves a one-line value without double blanks as it is)
extrair_dados_pdf_bytes(pdf) ==
    IF ~env.PDF_PROCESSOR_AVAILABLE THEN Put(EmptyDict, NUM, None)
    ELSE
    LET campos == {NUM, "Chamado", "Prefixo/Dependência", "Distância", "Descrição",
                   "Criticidade", "Tipo", "Prazo"}
        dados == [x \in campos |-> IF x \in DOMAIN pdf THEN limpar_valor_bruto(pdf[x]) ELSE None]
    IN Put(Put(dados, "Situação", Str("Pendente")), "Técnico", Str("Não Definido"))

\* the document processar_pdf writes for the extracted dados_os, doc being
\* what os_ref.get returned
PdfDoc(dados_os) ==
    LET os_number == dados_os[NUM]
        ref == get_os_ref(os_number.s)
        d0 == Del(dados_os, "Lembrete")
    IN IF ref \in DOMAIN store
       THEN Put(Update(store[ref], d0), "updated_at", Dt(now))
       ELSE Put(Put(Put(d0, "created_at", Dt(now)), "updated_at", Dt(now)), NUM, os_number)

\* state PROCESSAR_PDF, a PDF document: processar_pdf up to the awaits that
\* follow its note "Recebido", a message without a keyboard
ProcessarPdf(s, pdf) ==
    /\ conv[s] = "PROCESSAR_PDF"
    /\ Input(s, "pdf", <<IF NUM \in DOMAIN pdf THEN pdf[NUM] ELSE "">>)
    /\ kb' = [kb EXCEPT ![s] = {}]
    /\ awaiting' = [s |-> s, at |-> "processar_pdf:get", kind |-> "pdf",
                          data |-> <<IF NUM \in DOMAIN pdf THEN pdf[NUM] ELSE "">>,
                          ok |-> TRUE, x |-> pdf]
    /\ UNCHANGED <<conv, user_data, store, lembretes, jobs, now, delivered, alerts, storeUp,
                   env>>

\* processar_pdf from the download to the await of its call of os_ref.set:
\* os_ref.get reads the order or raises, and the document to write takes the
\* time of the clock; x keeps the reference, the document and doc.exists.
\* Without a number, or when the download raises, the handler replies and
\* returns
ProcessarPdfRead(s) ==
    LET ud == user_data[s]
        dados_os == extrair_dados_pdf_bytes(awaiting.x)
        early == ~env.download_as_bytes \/ ~Truthy(dados_os[NUM])
    IN /\ Resumes(s, "processar_pdf:get", IF early THEN "return" ELSE "resume")
       /\ UNCHANGED <<store, lembretes, jobs, now, delivered, alerts, storeUp, env>>
       /\ IF ~env.download_as_bytes     \* AttributeError in the try: 'Erro interno'
          THEN Reply(s, Res("MENU", UD0, MenuButton)) /\ awaiting' = NotAwaiting
          ELSE IF ~Truthy(dados_os[NUM])
          THEN Reply(s, Res("PROCESSAR_PDF", ud, {})) /\ awaiting' = NotAwaiting
          ELSE /\ awaiting' =
                     IF storeUp
                     THEN [awaiting EXCEPT !.at = "processar_pdf:set",
                              !.x = [ref |-> get_os_ref(dados_os[NUM].s),
                                     os_data |-> PdfDoc(dados_os),
                                     exists |-> get_os_ref(dados_os[NUM].s) \in DOMAIN store]]
                     ELSE [awaiting EXCEPT !.at = "processar_pdf", !.ok = FALSE, !.x = <<>>]
               /\ UNCHANGED <<conv, user_data, kb>>

\* processar_pdf from its call of os_ref.set, which writes the document or
\* raises, to the await of the reply_text that follows
ProcessarPdfStored(s) ==
    /\ Resumes(s, "processar_pdf:set", "resume")
    /\ store' = IF storeUp THEN Put(store, awaiting.x.ref, awaiting.x.os_data) ELSE store
    /\ awaiting' = [awaiting EXCEPT !.at = "processar_pdf", !.ok = storeUp]
    /\ UNCHANGED <<conv, user_data, kb, lembretes, jobs, now, delivered, alerts, storeUp, env>>

\* processar_pdf from its reply_text to its return
ProcessarPdfReplied(s) ==
    /\ Returns(s, "processar_pdf", Res("MENU", UD0, MenuButton))
    /\ UNCHANGED <<store, lembretes, jobs, now, delivered, alerts, storeUp, env>>

(***************************************************************************)
(* Manual reminders.                                                       *)
(***************************************************************************)
\* the lembrete_doc of save_lembrete; id stands for the identity of the job
LembreteDoc(s, ud, mensagem) ==
    [id |-> Cardinality(lembretes) + 1, os_number |-> ud.os_data[NUM].s, chat_id |-> s,
     message |-> mensagem, run_time |-> ud.lembrete_dt, created_at |-> now,
     status |-> "Pendente"]

\* state PROMPT_LEMBRETE_MSG, a text message: save_lembrete up to the await
\* of its call of add; x keeps lembrete_doc. When the call raises, or
\* os_data has no number, the handler goes to the reply of its except
SaveLembrete(s, mensagem) ==
    LET ud == user_data[s]
    IN /\ conv[s] = "PROMPT_LEMBRETE_MSG"
       /\ Cardinality(lembretes) < MaxJobs
       /\ Input(s, "text", <<mensagem>>)
       /\ UNCHANGED <<store, jobs, now, delivered, alerts, storeUp, env>>
       /\ IF ud.os_kind = "absent" \/ ud.lembrete_dt < 0    \* KeyError before the try
          THEN Reply(s, Raise(ud)) /\ UNCHANGED <<lembretes, awaiting>>
          ELSE IF storeUp /\ ud.os_kind = "dict" /\ NUM \in DOMAIN ud.os_data
          THEN /\ lembretes' = lembretes \cup {LembreteDoc(s, ud, mensagem)}
               /\ awaiting' = [s |-> s, at |-> "save_lembrete:add", kind |-> "text",
                          data |-> <<mensagem>>,
                          ok |-> TRUE, x |-> LembreteDoc(s, ud, mensagem)]
               /\ UNCHANGED <<conv, user_data, kb>>
          ELSE /\ awaiting' = [s |-> s, at |-> "save_lembrete", kind |-> "text",
                          data |-> <<mensagem>>,
                          ok |-> FALSE, x |-> <<>>]
               /\ UNCHANGED <<conv, user_data, kb, lembretes>>

\* save_lembrete from the return of add to its await of reply_text:
\* run_once puts the job of lembrete_doc in the queue
SaveLembreteScheduled(s) ==
    /\ Resumes(s, "save_lembrete:add", "resume")
    /\ jobs' = jobs \cup {awaiting.x}
    /\ awaiting' = [awaiting EXCEPT !.at = "save_lembrete"]
    /\ UNCHANGED <<conv, user_data, kb, store, lembretes, now, delivered, alerts, storeUp, env>>

\* save_lembrete from its reply_text to its return: the menu button,
\* user_data cleared, MENU
SaveLembreteReplied(s) ==
    /\ Returns(s, "save_lembrete", Res("MENU", UD0, MenuButton))
    /\ UNCHANGED <<store, lembretes, jobs, now, delivered, alerts, storeUp, env>>

\* what a delivered message without a keyboard leaves of the chat's last
\* keyboard
Sent(chat_id) == [kb EXCEPT ![chat_id] = {}]

\* send_manual_alert_job run by a queue that does not wait for the job's time
SendManualAlertJobAtOnce(j) ==
    /\ j \in jobs
    /\ delivered' = Put(delivered, j.id, Get0(delivered, j.id) + 1)
    /\ kb' = Sent(j.chat_id)
    /\ jobs' = jobs \ {j}
    /\ last' = [s |-> 0, kind |-> "job", data |-> <<"manual">>]
    /\ UNCHANGED <<conv, user_data, store, lembretes, now, alerts, awaiting, storeUp, env>>

\* send_manual_alert_job as a job that stays in the queue after it ran
SendManualAlertJobRepeating(j) ==
    /\ j \in jobs
    /\ now >= j.run_time
    /\ delivered' = Put(delivered, j.id, Get0(delivered, j.id) + 1)
    /\ kb' = Sent(j.chat_id)
    /\ jobs' = jobs
    /\ last' = [s |-> 0, kind |-> "job", data |-> <<"manual">>]
    /\ UNCHANGED <<conv, user_data, store, lembretes, now, alerts, awaiting, storeUp, env>>

\* send_manual_alert_job, run by the job queue once the job's time has come;
\* a run_once job leaves the queue when it runs. Telegram takes the message,
\* which has no keyboard
SendManualAlertJob(j) ==
    /\ j \in jobs
    /\ now >= j.run_time
    /\ delivered' = Put(delivered, j.id, Get0(delivered, j.id) + 1)
    /\ kb' = Sent(j.chat_id)
    /\ jobs' = jobs \ {j}
    /\ last' = [s |-> 0, kind |-> "job", data |-> <<"manual">>]
    /\ UNCHANGED <<conv, user_data, store, lembretes, now, alerts, awaiting, storeUp, env>>

\* send_manual_alert_job when send_message raises: the except logs the
\* error, nothing reaches the chat and the job has left the queue
SendManualAlertJobRejected(j) ==
    /\ j \in jobs
    /\ now >= j.run_time
    /\ jobs' = jobs \ {j}
    /\ last' = [s |-> 0, kind |-> "job", data |-> <<"manual", "rejected">>]
    /\ UNCHANGED <<conv, user_data, kb, store, lembretes, now, delivered, alerts, awaiting,
                   storeUp, env>>

(***************************************************************************)
(* The automatic deadline alerts.  check_automatic_alerts_job is the       *)
(* callback of one run_daily in main().  main() skips that call when       *)
(* NOTIFICATION_CHAT_ID is not set, and the call ends the process when it  *)
(* is set (see Serving): no step of the program runs the job, and alerts   *)
(* stays empty.                                                            *)
(***************************************************************************)
\* the alert type check_automatic_alerts_job gives a deadline, "" for none
AlertType(prazo_dt, today) ==
    IF prazo_dt < today THEN "VENCIDA"
    ELSE IF prazo_dt = today + DayLen THEN "VENCE AMANHÃ"
    ELSE IF prazo_dt = today + 2 * DayLen THEN "VENCE EM 2 DIAS"
    ELSE ""

\* the clock
Tick ==
    /\ now < MaxNow
    /\ now' = now + 1
    /\ last' = [s |-> 0, kind |-> "tick", data |-> <<>>]
    /\ UNCHANGED <<conv, user_data, kb, store, lembretes, jobs, delivered, alerts, awaiting, storeUp, env>>

(***************************************************************************)
(* The program: the handlers of the ConversationHandler and the jobs.      *)
(***************************************************************************)
TecnicoInputs == {<<"tecnico", "definido">>, <<"tecnico", "nao", "definido">>}

Navigate(s) ==
    \/ Start(s)
    \/ Cancel(s)
    \/ MenuCallback(s)
    \/ FallbackCommand(s)
    \/ \E data \in MainMenuKeyboard : MenuChoice(s, data)
    \/ \E n \in Ids : UpdateExisting(s, n)

Create(s) ==
    \/ \E text \in IdInputs : PromptOsId(s, text)
    \/ \E text \in Texts : PromptChamado(s, text)
    \/ \E text \in Texts : PromptDistancia(s, text)
    \/ \E text \in Texts : PromptDescricao(s, text)
    \/ \E text \in Texts : PromptCriticidade(s, text)
    \/ \E c \in Press(CriticidadeSeq) : PromptTipo(s, c)
    \/ \E t \in Press(TipoSeq) : PromptPrazo(s, t)
    \/ \E text \in TypedDates \cup {"N/A"} : PromptSituacao(s, text)
    \/ \E x \in Press(SituacaoSeq) : PromptTecnico(s, x)
    \/ \E data \in TecnicoInputs : HandleTecnicoSelection(s, data)
    \/ \E text \in Texts : PromptAgendamento(s, text)
    \/ \E text \in TypedDates \cup {"N/A", "amanhã"} : ShowResumoInclusao(s, text)
    \/ EditResumo(s)
    \/ ResumoCancel(s)
    \/ SaveOsToFirestore(s)
    \/ SaveOsToFirestoreStored(s)
    \/ SaveOsToFirestoreReplied(s)

Select(s) ==
    \/ \E text \in IdInputs : PromptOsUpdate(s, text)
    \/ \E data \in (get_edit_keyboard(user_data[s].os_data) \ MenuButton)
                      \cup {<<"show", "resumo">>} : HandleEditSelection(s, data)

Delete(s) ==
    \/ \E text \in IdInputs : PromptOsDelete(s, text)
    \/ \E data \in {<<"confirm", "delete", n>> : n \in Ids} \cup MenuButton :
          ConfirmDelete(s, data)
    \/ ConfirmDeleteReplied(s)

List(s) ==
    \/ \E t \in Press(TipoSeq) \cup {"Todas"} : PromptListarSituacao(s, t)
    \/ \E x \in Press(SituacaoSeq) \cup {"Todas"} : ExecuteListagem(s, x)

Pdf(s) ==
    \/ \E pdf \in PdfInputs : ProcessarPdf(s, pdf)
    \/ ProcessarPdfRead(s)
    \/ ProcessarPdfStored(s)
    \/ ProcessarPdfReplied(s)

\* the dialogue on the orders, one chat, the store empty at first
Next ==
    \E s \in OneChat :
        Navigate(s) \/ Create(s) \/ Select(s) \/ Delete(s) \/ List(s) \/ Pdf(s)

Spec == Init /\ [][Next]_vars

(***************************************************************************)
(* The order dialogue of one chat while Firestore may stop answering and   *)
(* answer again.                                                           *)
(***************************************************************************)
StoreFails ==
    /\ storeUp
    /\ storeUp' = FALSE
    /\ last' = [s |-> 0, kind |-> "fault", data |-> <<"down">>]
    /\ UNCHANGED <<conv, user_data, kb, store, lembretes, jobs, now, delivered, alerts, awaiting, env>>

StoreRecovers ==
    /\ ~storeUp
    /\ storeUp' = TRUE
    /\ last' = [s |-> 0, kind |-> "fault", data |-> <<"up">>]
    /\ UNCHANGED <<conv, user_data, kb, store, lembretes, jobs, now, delivered, alerts, awaiting, env>>

NextFault == Next \/ StoreFails \/ StoreRecovers

SpecFault == Init /\ [][NextFault]_vars

(***************************************************************************)
(* Several chats at once on the shared store: the steps that lead to a     *)
(* write of the store (Create, document upload, Delete).                   *)
(***************************************************************************)
CreateShared(s) ==
    \/ \E text \in Ids : PromptOsId(s, text)
    \/ \E text \in Texts : PromptChamado(s, text)
    \/ \E text \in Texts : PromptDistancia(s, text)
    \/ \E text \in Texts : PromptDescricao(s, text)
    \/ \E text \in Texts : PromptCriticidade(s, text)
    \/ \E c \in Press(CriticidadeSeq) : PromptTipo(s, c)
    \/ \E t \in Press(TipoSeq) : PromptPrazo(s, t)
    \/ \E text \in TypedDates : PromptSituacao(s, text)
    \/ \E x \in Press(SituacaoSeq) : PromptTecnico(s, x)
    \/ \E data \in TecnicoInputs : HandleTecnicoSelection(s, data)
    \/ \E text \in Texts : PromptAgendamento(s, text)
    \/ SaveOsToFirestore(s)
    \/ SaveOsToFirestoreStored(s)
    \/ SaveOsToFirestoreReplied(s)

NextShared ==
    \E s \in Sessions :
        \/ Start(s)
        \/ \E data \in {<<"incluir", "os">>, <<"enviar", "pdf">>, <<"deletar", "os">>} : MenuChoice(s, data)
        \/ CreateShared(s)
        \/ \E pdf \in {PdfFull(n) : n \in Ids} : ProcessarPdf(s, pdf)
        \/ ProcessarPdfRead(s)
        \/ ProcessarPdfStored(s)
        \/ ProcessarPdfReplied(s)
        \/ \E text \in Ids : PromptOsDelete(s, text)
        \/ \E n \in Ids : ConfirmDelete(s, <<"confirm", "delete", n>>)
        \/ ConfirmDeleteReplied(s)

InitShared == InitWith(Sessions, EmptyDict) /\ env \in DialogueEnvironments

SpecShared == InitShared /\ [][NextShared]_vars

\* two chats on the write paths, with the answer to the duplicate prompt
NextDuplicate ==
    \/ NextShared
    \/ \E s \in Sessions : \E n \in Ids : UpdateExisting(s, n)

SpecDuplicate == InitShared /\ [][NextDuplicate]_vars

(***************************************************************************)
(* Orders already in Firestore when the application starts.                *)
(***************************************************************************)
\* an order as save_os_to_firestore wrote it at tick 0 (prazo a datetime), or
\* as processar_pdf wrote it (prazo the text of the document)
StoredOrder(n, prazo, situacao) ==
    [x \in {NUM, "Chamado", "Prefixo/Dependência", "Distância", "Descrição", "Criticidade",
            "Tipo", "Prazo", "Situação", "Técnico", "Agendamento", "created_at", "updated_at"} |->
        CASE x = NUM -> Str(n)
          [] x = "Criticidade" -> Str("Urgente")
          [] x = "Tipo" -> Str("Corretiva")
          [] x = "Prazo" -> prazo
          [] x = "Situação" -> Str(situacao)
          [] x = "Técnico" -> Str("Não Definido")
          [] x = "Agendamento" -> Str("Não Informado")
          [] x \in {"created_at", "updated_at"} -> Dt(0)
          [] OTHER -> Str(TextNames[1])]

\* collections of stored orders, each under the document id of its number
StoredOrders(prazos, situacoes) ==
    UNION {[{get_os_ref(n) : n \in ids} ->
                {StoredOrder(n, p, x) : n \in ids, p \in prazos, x \in situacoes}] :
           ids \in SUBSET Ids}
WellKeyed(orders) == \A k \in DOMAIN orders : get_os_ref(orders[k][NUM].s) = k

(***************************************************************************)
(* Manual reminders: the dialogue that creates them, the Delete dialogue,  *)
(* the job queue and the clock.                                            *)
(***************************************************************************)
Lembrete(s) ==
    \/ StartLembreteManual(s)
    \/ \E text \in Ids : PromptLembreteData(s, text)
    \/ \E text \in {TimeNames[t + 1] : t \in Ticks} \cup {"amanhã"} : PromptLembreteMsg(s, text)
    \/ \E text \in Texts : SaveLembrete(s, text)
    \/ SaveLembreteScheduled(s)
    \/ SaveLembreteReplied(s)

NextReminder ==
    \/ \E s \in OneChat :
          \/ Start(s)
          \/ Cancel(s)
          \/ \E data \in {<<"lembrete", "menu">>, <<"deletar", "os">>} : MenuChoice(s, data)
          \/ Lembrete(s)
          \/ \E text \in Ids : PromptOsDelete(s, text)
          \/ \E n \in Ids : ConfirmDelete(s, <<"confirm", "delete", n>>)
          \/ ConfirmDeleteReplied(s)
    \/ \E j \in jobs : SendManualAlertJob(j) \/ SendManualAlertJobRejected(j)
    \/ Tick

InitReminder ==
    \E orders \in {o \in StoredOrders({Dt(Midnight(0))}, {"Pendente"}) : WellKeyed(o)} :
        InitWith(OneChat, orders) /\ env = PlainEnvironment

SpecReminder == InitReminder /\ [][NextReminder]_vars

\* the job queue runs a run_once job whose time has come
SpecReminderFair ==
    SpecReminder
        /\ WF_vars(\E j \in jobs : SendManualAlertJob(j) \/ SendManualAlertJobRejected(j))

(***************************************************************************)
(* The orders in the store while the clock runs: the Create dialogue with  *)
(* deadlines of the days ahead, the document upload, and the clock.  The   *)
(* job queue holds ping_self_job alone, which touches none of this.        *)
(***************************************************************************)
NextClock ==
    \/ \E s \in OneChat :
          \/ Start(s)
          \/ \E data \in {<<"incluir", "os">>, <<"enviar", "pdf">>} : MenuChoice(s, data)
          \/ CreateShared(s)
          \/ \E d \in Days : PromptSituacao(s, DateNames[d + 1])
          \/ \E pdf \in {PdfFull(n) : n \in Ids} : ProcessarPdf(s, pdf)
          \/ ProcessarPdfRead(s)
          \/ ProcessarPdfStored(s)
          \/ ProcessarPdfReplied(s)
    \/ Tick

SpecClock == Init /\ [][NextClock]_vars

(***************************************************************************)
(* Properties.                                                             *)
(***************************************************************************)
\* the update handled by the step is input kind from chat s
Handled(s, kind) == last'.s = s /\ last'.kind = kind
\* the working copy of chat s is an order that is in the store
OfStoredOrder(ud) ==
    /\ ud.os_kind = "dict"
    /\ NUM \in DOMAIN ud.os_data
    /\ ud.os_data[NUM].k = "str"
    /\ get_os_ref(ud.os_data[NUM].s) \in DOMAIN store
\* the states of the Create flow that collect the fields of a new order
CreateCollection == {"PROMPT_CHAMADO", "PROMPT_PREFIXO", "PROMPT_DISTANCIA",
    "PROMPT_DESCRICAO", "PROMPT_CRITICIDADE", "PROMPT_TIPO", "PROMPT_PRAZO",
    "PROMPT_SITUACAO", "PROMPT_TECNICO", "PROMPT_TECNICO_NOME", "RESUMO_INCLUSAO"}

\* C1: under SpecShared (several chats creating, uploading and deleting at
\* once) no two documents of the store carry the same 'Número da O.S.'.
C1_UniqueIdentifier ==
    \A k1, k2 \in DOMAIN store : Get(store[k1], NUM) = Get(store[k2], NUM) => k1 = k2

\* C1, the case: the handler of a Create confirmation has written the store
\* and returned; the store holds one order per number, one of them written
\* by a document upload.
C1_Witness ==
    /\ last.kind = "return" /\ last.data = <<"confirm", "save">>
    /\ Cardinality(DOMAIN store) = Cardinality(Ids)
    /\ \E k \in DOMAIN store : Get(store[k], "Chamado") = Str("CH-1")

\* C2: in CONFIRM_DELETE the payload 'menu' (the button "Cancelar") leaves the
\* store as it was and the chat in MENU: no step of its handler, from the
\* press to the return, changes the store, and the return leaves MENU.
C2_CancelKeepsOrder ==
    [][\A s \in DOMAIN conv :
          /\ (conv[s] = "CONFIRM_DELETE" /\ Handled(s, "cb") /\ last'.data = <<"menu">>)
                 => store' = store
          /\ (awaiting.at = "confirm_delete" /\ Handled(s, "return") /\ last'.data = <<"menu">>)
                 => (store' = store /\ conv'[s] = "MENU")]_vars

\* C3: in PROMPT_OS_ID a number whose order is in the store writes nothing to
\* the store, enters no collection state of the Create flow, and the reply
\* offers the button update_existing_<number>.
C3_DuplicateOffersEdit ==
    [][\A s \in DOMAIN conv :
          (/\ conv[s] = "PROMPT_OS_ID" /\ Handled(s, "text")
           /\ IsDigit(last'.data[1])
           /\ get_os_ref(last'.data[1]) \in DOMAIN store)
              => (/\ store' = store
                  /\ conv'[s] \notin CreateCollection
                  /\ <<"update", "existing", last'.data[1]>> \in kb'[s])]_vars

\* C3, the case: the number of a stored order was typed in the Create flow and
\* the chat now shows the duplicate prompt for it.
C3_Witness ==
    /\ last.kind = "text"
    /\ last.s \in DOMAIN conv
    /\ get_os_ref(last.data[1]) \in DOMAIN store
    /\ conv[last.s] = "MENU"
    /\ kb[last.s] = {<<"update", "existing", last.data[1]>>, <<"cancel">>, <<"menu">>}

\* C4: the job of a manual reminder never delivers a reminder whose order is
\* not in the store (in SpecReminder an order leaves the store only by a
\* confirmed Delete, and reminders are created only for stored orders).
C4_NoDeliveryAfterDelete ==
    [][\A j \in jobs :
          Get0(delivered', j.id) > Get0(delivered, j.id)
              => get_os_ref(j.os_number) \in DOMAIN store]_vars

\* C6: no manual reminder is delivered more than once.
C6_DeliveredAtMostOnce == \A id \in DOMAIN delivered : delivered[id] <= 1

\* C6, the case: a reminder was delivered, its job has left the queue, and the
\* clock has ticked since with the reminder's time in the past.
C6_Witness ==
    /\ last.kind = "tick"
    /\ \E r \in lembretes : /\ Get0(delivered, r.id) = 1
                            /\ r \notin jobs
                            /\ r.run_time < now

\* C8: in PROMPT_OS_UPDATE the number of a stored order moves the chat to
\* UPDATE_SELECTION with the stored order as its working copy.
C8_LookupOpensEditMenu ==
    [][\A s \in DOMAIN conv :
          (/\ conv[s] = "PROMPT_OS_UPDATE" /\ Handled(s, "text")
           /\ IsDigit(last'.data[1])
           /\ get_os_ref(last'.data[1]) \in DOMAIN store)
              => (/\ conv'[s] = "UPDATE_SELECTION"
                  /\ user_data'[s].os_kind = "dict"
                  /\ user_data'[s].os_data = fetch_os_by_number(last'.data[1]).data)]_vars

\* the states that await the new value of field k
AwaitsValue(k) ==
    {"PROMPT_UPDATE_FIELD"} \cup
        (CASE k = "Criticidade" -> {"PROMPT_CRITICIDADE"}
           [] k = "Tipo" -> {"PROMPT_TIPO"}
           [] k = "Situação" -> {"PROMPT_SITUACAO"}
           [] OTHER -> {})

\* C9: in UPDATE_SELECTION a field button of the edit keyboard on display
\* (edit_field_<k>, edit_select_<k>) moves the chat to a state that awaits the
\* value of k, with editing_field = k.
C9_SelectAwaitsValue ==
    [][\A s \in DOMAIN conv :
          (/\ conv[s] = "UPDATE_SELECTION" /\ Handled(s, "cb")
           /\ last'.data \in kb[s]
           /\ Len(last'.data) = 3
           /\ last'.data[1] = "edit" /\ last'.data[2] \in {"field", "select"})
              => (/\ conv'[s] \in AwaitsValue(last'.data[3])
                  /\ user_data'[s].editing_field = last'.data[3])]_vars

\* C10: in UPDATE_SELECTION the finish buttons (confirm_save, show_resumo)
\* leave the state: over a stored order to MENU with the working copy's fields
\* in the store, over a draft to RESUMO_INCLUSAO with the draft as it was.
C10_FinishLeavesMenu ==
    [][\A s \in DOMAIN conv :
          (/\ conv[s] = "UPDATE_SELECTION" /\ Handled(s, "cb")
           /\ last'.data \in {<<"confirm", "save">>, <<"show", "resumo">>})
              => IF OfStoredOrder(user_data[s])
                 THEN /\ conv'[s] = "MENU"
                      /\ get_os_ref(user_data[s].os_data[NUM].s) \in DOMAIN store'
                      /\ \A f \in (DOMAIN user_data[s].os_data) \ ControlKeys :
                            Get(store'[get_os_ref(user_data[s].os_data[NUM].s)], f)
                                = user_data[s].os_data[f]
                 ELSE /\ conv'[s] = "RESUMO_INCLUSAO"
                      /\ user_data'[s].os_data = user_data[s].os_data]_vars

\* C12: an explicit cancel (the command /cancel, or the payload 'cancel' of
\* the Cancelar buttons) issued outside the menu leaves the chat at the menu
\* (MENU, or no conversation at all, from where /start opens the menu) and
\* leaves no os_data in user_data.
C12_CancelDiscardsDraft ==
    [][\A s \in DOMAIN conv :
          (/\ conv[s] \notin {END, "MENU"}
           /\ (Handled(s, "cmd") \/ Handled(s, "cb"))
           /\ last'.data = <<"cancel">>)
              => (/\ conv'[s] \in {"MENU", END}
                  /\ user_data'[s].os_kind = "absent"
                  /\ user_data'[s].os_data = EmptyDict)]_vars

\* the fields of the draft: every key of os_data but the placeholder
\* Lembrete = 'Nenhum' that show_resumo_inclusao adds for the summary
DraftFields(os_data) ==
    {k \in DOMAIN os_data : ~(k = "Lembrete" /\ os_data[k] = Str("Nenhum"))}

\* C13: 'confirm_save' at the summary of a Create, with the store up: the
\* store then holds, under the document id of the draft's number, an order
\* with the draft's value in every field of the draft (and the two
\* timestamps); the chat is in MENU and user_data is cleared. Over the steps
\* of save_os_to_firestore: the press leaves in os_data the fields of the
\* draft and the timestamps; the call of set writes os_data under the
\* number and nothing else; the return finds that order in the store and
\* leaves MENU with user_data cleared.
C13_ConfirmPersistsDraft ==
    [][\A s \in DOMAIN conv :
          /\ (/\ conv[s] = "RESUMO_INCLUSAO" /\ Handled(s, "cb")
              /\ last'.data = <<"confirm", "save">>
              /\ user_data[s].is_new_os /\ storeUp)
                 => LET d == user_data[s].os_data
                        doc == user_data'[s].os_data
                    IN /\ NUM \in DOMAIN d /\ d[NUM].k = "str"
                       /\ awaiting'.s = s /\ awaiting'.at = "save_os_to_firestore:set"
                       /\ DOMAIN doc = DraftFields(d) \cup {"created_at", "updated_at"}
                       /\ \A k \in DraftFields(d) : doc[k] = d[k]
                       /\ store' = store
          /\ (/\ awaiting.at = "save_os_to_firestore:set" /\ Handled(s, "resume")
              /\ user_data[s].is_new_os /\ storeUp)
                 => LET d == user_data[s].os_data
                    IN /\ get_os_ref(d[NUM].s) \in DOMAIN store'
                       /\ store'[get_os_ref(d[NUM].s)] = d
                       /\ \A k \in DOMAIN store : get_os_ref(d[NUM].s) # k =>
                              k \in DOMAIN store' /\ store'[k] = store[k]
                       /\ awaiting'.s = s /\ awaiting'.at = "save_os_to_firestore"
                       /\ awaiting'.ok
                       /\ user_data'[s] = user_data[s]
          /\ (/\ awaiting.at = "save_os_to_firestore" /\ Handled(s, "return")
              /\ user_data[s].is_new_os /\ awaiting.ok)
                 => LET d == user_data[s].os_data
                    IN /\ get_os_ref(d[NUM].s) \in DOMAIN store
                       /\ store[get_os_ref(d[NUM].s)] = d
                       /\ store' = store
                       /\ conv'[s] = "MENU"
                       /\ user_data'[s] = UD0]_vars

\* C13, the case: save_os_to_firestore has returned from the confirmation of
\* a Create and its order, with a typed Agendamento date, is in the store.
C13_Witness ==
    /\ last.kind = "return" /\ last.data = <<"confirm", "save">>
    /\ conv[1] = "MENU"
    /\ \E k \in DOMAIN store :
          /\ store[k]["created_at"] = Dt(now)
          /\ "Agendamento" \in DOMAIN store[k] /\ store[k]["Agendamento"].k = "dt"
          /\ "Lembrete" \notin DOMAIN store[k]

\* C14: in PROMPT_OS_UPDATE and PROMPT_OS_DELETE a number made of digits that
\* is the id of no stored order leaves the chat in the same state (whose
\* handler reads the next text as a number again), and changes neither the
\* store nor user_data.
C14_LookupMissRetry ==
    [][\A s \in DOMAIN conv :
          (/\ conv[s] \in {"PROMPT_OS_UPDATE", "PROMPT_OS_DELETE"} /\ Handled(s, "text")
           /\ IsDigit(last'.data[1])
           /\ get_os_ref(last'.data[1]) \notin DOMAIN store)
              => (/\ conv'[s] = conv[s]
                  /\ store' = store
                  /\ user_data'[s] = user_data[s]
                  /\ kb'[s] = MenuButton)]_vars

\* C14, the case: a number that is not in the store was just typed in the
\* Update lookup, while another order is stored.
C14_Witness ==
    /\ last.kind = "text" /\ last.s \in DOMAIN conv
    /\ conv[last.s] = "PROMPT_OS_UPDATE"
    /\ IsDigit(last.data[1])
    /\ get_os_ref(last.data[1]) \notin DOMAIN store
    /\ store # EmptyDict

\* the clock step that takes a day past 9h UTC, the hour of the daily run
\* of the deadline check
PastSweepHour ==
    /\ Handled(0, "tick")
    /\ (now % DayLen) * 24 < 9 * DayLen
    /\ ((now % DayLen) + 1) * 24 >= 9 * DayLen

\* the stored orders the deadline check of today owes an alert: not
\* 'Concluído', the deadline a date, and the date in one of the alert classes
OwedAlert ==
    {k \in DOMAIN store :
        /\ Get(store[k], "Situação") # Str("Concluído")
        /\ Get(store[k], "Prazo").k = "dt"
        /\ AlertType(Floor(store[k]["Prazo"].d), Floor(now)) # ""}

C16_UploadDuplicateOffersEdit ==
    [][\A s \in DOMAIN conv :
          /\ (awaiting.at = "processar_pdf:set" /\ Handled(s, "resume") /\ awaiting.x.exists)
                 => store' = store
          /\ (/\ awaiting.at = "processar_pdf" /\ Handled(s, "return")
              /\ awaiting.ok /\ awaiting.x.exists)
                 => (/\ <<"update", "existing", last'.data[1]>> \in kb'[s]
                     /\ <<"cancel">> \in kb'[s])]_vars

\* C17: the update that a document upload makes to a stored order leaves
\* unchanged the fields of it that no document supplies, such as Situação
\* and Técnico (extrair_dados_pdf_bytes has no pattern for them).
C17_UploadKeepsOtherFields ==
    [][\A s \in DOMAIN conv :
          (/\ awaiting.at = "processar_pdf:set" /\ Handled(s, "resume")
           /\ awaiting.x.exists /\ awaiting.x.ref \in DOMAIN store)
              => LET ref == awaiting.x.ref
                 IN /\ ref \in DOMAIN store'
                    /\ \A k \in {"Situação", "Técnico", "Agendamento", "created_at"} \cap DOMAIN store[ref] :
                          k \in DOMAIN store'[ref] /\ store'[ref][k] = store[ref][k]]_vars

\* C18: every manual reminder that save_lembrete stores and schedules has,
\* at that moment, a run_time not earlier than the clock less the tolerance.
\* The tolerance is a matter of minutes; a whole tick of the clock is
\* granted here.
C18_ReminderCreatedInFuture ==
    [][\A r \in (lembretes' \ lembretes) \cup (jobs' \ jobs) : r.run_time >= now - 1]_vars

\* C19: in PROMPT_LEMBRETE_DATA a date and time that is already past leaves
\* the chat in PROMPT_LEMBRETE_DATA, stores no reminder, schedules no job
\* and keeps no lembrete_dt.
C19_PastTimeRejected ==
    [][\A s \in DOMAIN conv :
          (/\ conv[s] = "PROMPT_LEMBRETE_DATA" /\ Handled(s, "text")
           /\ StrptimeDMYHM(last'.data[1]) >= 0
           /\ StrptimeDMYHM(last'.data[1]) < now)
              => (/\ conv'[s] = "PROMPT_LEMBRETE_DATA"
                  /\ lembretes' = lembretes /\ jobs' = jobs
                  /\ user_data'[s] = user_data[s])]_vars

\* C19, the case: a past date and time was just typed for the reminder of a
\* stored order.
C19_Witness ==
    /\ last.kind = "text" /\ last.s \in DOMAIN conv
    /\ conv[last.s] = "PROMPT_LEMBRETE_DATA"
    /\ StrptimeDMYHM(last.data[1]) >= 0
    /\ StrptimeDMYHM(last.data[1]) < now
    /\ OfStoredOrder(user_data[last.s])

\* C20: a reminder whose job has run is no longer a pending record of
\* lembretes_manuais: it is deleted or its status is no longer 'Pendente'.
C20_FiredNotPending ==
    \A r \in lembretes : Get0(delivered, r.id) > 0 => r.status # "Pendente"

\* C21 as stated: a manual reminder that save_lembrete scheduled is not
\* delivered while the clock is before its run_time, and once the clock has
\* reached its run_time it is eventually delivered (the job queue being fair
\* to the jobs that are due).
C21_DeliveredWhenDue ==
    /\ [](\A r \in lembretes : Get0(delivered, r.id) > 0 => now >= r.run_time)
    /\ \A i \in 1..MaxJobs :
          (\E r \in lembretes : r.id = i /\ now >= r.run_time) ~> (Get0(delivered, i) > 0)

\* C21: a manual reminder that save_lembrete scheduled is not delivered
\* while the clock is before its run_time; once the clock has reached its
\* run_time its job is eventually run and leaves the queue (the job queue
\* being fair to the jobs that are due), and the run either delivers the
\* message or is one whose send_message raised, which is not tried again.
C21_RunWhenDue ==
    /\ [](\A r \in lembretes : Get0(delivered, r.id) > 0 => now >= r.run_time)
    /\ \A i \in 1..MaxJobs :
          (\E r \in lembretes : r.id = i /\ now >= r.run_time) ~> (\A j \in jobs : j.id # i)
    /\ [][\A j \in jobs :
             j \notin jobs'
                => (/\ Handled(0, "job") /\ last'.data[1] = "manual"
                    /\ now >= j.run_time
                    /\ Get0(delivered', j.id) =
                          Get0(delivered, j.id) + (IF Len(last'.data) = 1 THEN 1 ELSE 0))]_vars

\* C21, the case: a reminder scheduled for a later tick was delivered after
\* the clock reached that tick.
C21_Witness ==
    \E r \in lembretes :
        /\ r.run_time > r.created_at
        /\ now >= r.run_time
        /\ Get0(delivered, r.id) > 0

C24_StoreFailureEndsOperation ==
    [][\A s \in DOMAIN conv :
          /\ (/\ ~storeUp
              /\ conv[s] \in {"PROMPT_OS_ID", "PROMPT_OS_UPDATE", "PROMPT_OS_DELETE"}
              /\ Handled(s, "text") /\ IsDigit(last'.data[1]))
                 => (/\ conv'[s] = "MENU"
                     /\ user_data'[s] = UD0
                     /\ store' = store)
          /\ (/\ ~storeUp
              /\ \/ awaiting.at = "save_os_to_firestore:set" /\ Handled(s, "resume")
                 \/ /\ conv[s] = "CONFIRM_DELETE" /\ Handled(s, "cb")
                    /\ Truthy(Get(user_data[s].os_data, NUM)))
                 => (/\ store' = store
                     /\ awaiting'.s = s /\ ~awaiting'.ok)
          /\ (/\ awaiting.at \in {"save_os_to_firestore", "confirm_delete"}
              /\ Handled(s, "return") /\ ~awaiting.ok)
                 => (/\ conv'[s] = "MENU"
                     /\ user_data'[s] = UD0
                     /\ store' = store)]_vars

\* C25: the command /cancel, in any state of the conversation, changes no
\* stored order, no record of lembretes_manuais and no job of the queue.
C25_CancelKeepsStoreAndJobs ==
    [][\A s \in DOMAIN conv :
          (Handled(s, "cmd") /\ last'.data = <<"cancel">>)
              => (store' = store /\ lembretes' = lembretes /\ jobs' = jobs)]_vars

\* C25, the case: /cancel has just ended a conversation while orders are
\* stored, a reminder is recorded and its job is in the queue.
C25_Witness ==
    /\ last.kind = "cmd" /\ last.data = <<"cancel">>
    /\ conv[last.s] = END
    /\ store # EmptyDict
    /\ jobs # {} /\ jobs \subseteq lembretes

\* C27: a confirm_save of a Create (a draft that was not loaded from the
\* store) never replaces an order that is in the store at that moment,
\* also when another chat created the same number in the meantime.
C27_CreateNeverOverwrites ==
    [][\A s \in DOMAIN conv :
          (/\ awaiting.at = "save_os_to_firestore:set" /\ Handled(s, "resume")
           /\ last'.data = <<"confirm", "save">>
           /\ user_data[s].is_new_os /\ ~user_data[s].is_update
           /\ get_os_ref(user_data[s].os_data[NUM].s) \in DOMAIN store)
              => store' = store]_vars

\* C28: every stored order has Tipo, Criticidade and Situação among the
\* options of their keyboards and its Prazo stored as a date.
C28_StoredFieldsInDomain ==
    \A k \in DOMAIN store :
        /\ Get(store[k], "Tipo") \in {Str(t) : t \in Tipos}
        /\ Get(store[k], "Criticidade") \in {Str(c) : c \in Criticidades}
        /\ Get(store[k], "Situação") \in {Str(x) : x \in Situacoes}
        /\ Get(store[k], "Prazo").k = "dt"

\* C29: in every chat editing_field is set only in PROMPT_UPDATE_FIELD, the
\* state that awaits the new value of one field; in UPDATE_SELECTION,
\* RESUMO_INCLUSAO and MENU it is not set.
C29_EditingFieldOnlyWhileAwaiting ==
    \A s \in DOMAIN conv :
        user_data[s].editing_field # "" => conv[s] = "PROMPT_UPDATE_FIELD"

\* C30: whenever a chat is in RESUMO_INCLUSAO in a Create (a draft of a new
\* order, not loaded from the store) the draft has the number, a Descrição,
\* a Tipo and a Prazo that was parsed as a date.
C30_SummaryHasRequiredFields ==
    \A s \in DOMAIN conv :
        (/\ conv[s] = "RESUMO_INCLUSAO"
         /\ user_data[s].is_new_os /\ ~user_data[s].is_update)
            => LET d == user_data[s].os_data
               IN /\ user_data[s].os_kind = "dict"
                  /\ Truthy(Get(d, NUM))
                  /\ Truthy(Get(d, "Descrição"))
                  /\ Get(d, "Tipo") \in {Str(t) : t \in Tipos}
                  /\ Get(d, "Prazo").k = "dt"

\* C30, the case: the summary of a Create is on display, reached through
\* the dialogue.
C30_Witness ==
    /\ conv[1] = "RESUMO_INCLUSAO"
    /\ user_data[1].is_new_os /\ ~user_data[1].is_update
    /\ last.s = 1 /\ last.kind = "cb" /\ last.data = <<"tecnico", "nao", "definido">>
    /\ Get(user_data[1].os_data, "Prazo").k = "dt"

\* C31: a text that fails the validation of its state (a number that is not
\* made of digits in PROMPT_OS_ID, PROMPT_OS_UPDATE and PROMPT_OS_DELETE, a
\* Prazo that is no DD/MM/AAAA date in PROMPT_PRAZO, an Agendamento that is
\* neither a date nor N/A where RESUMO_INCLUSAO awaits it) leaves the chat in
\* the same state, whose handler validates the next text again, and changes
\* neither user_data nor the store.
C31_InvalidInputRetry ==
    [][\A s \in DOMAIN conv :
          (/\ Handled(s, "text")
           /\ \/ /\ conv[s] \in {"PROMPT_OS_ID", "PROMPT_OS_UPDATE", "PROMPT_OS_DELETE"}
                 /\ ~IsDigit(last'.data[1])
              \/ /\ conv[s] = "PROMPT_PRAZO"
                 /\ StrptimeDMY(last'.data[1]) < 0
              \/ /\ conv[s] = "RESUMO_INCLUSAO"
                 /\ user_data[s].current_step = "RESUMO_INCLUSAO"
                 /\ StrptimeDMY(last'.data[1]) < 0 /\ ~IsNA(last'.data[1]))
              => (/\ conv'[s] = conv[s]
                  /\ user_data'[s] = user_data[s]
                  /\ store' = store)]_vars

\* C31, the case: a text that is no date was just typed for the Agendamento
\* of a draft.
C31_Witness ==
    /\ last.s = 1 /\ last.kind = "text"
    /\ StrptimeDMY(last.data[1]) < 0 /\ ~IsNA(last.data[1])
    /\ conv[1] = "RESUMO_INCLUSAO"
    /\ user_data[1].current_step = "RESUMO_INCLUSAO"
    /\ user_data[1].os_kind = "dict"
    /\ "Técnico" \in DOMAIN user_data[1].os_data

\* C32: at the duplicate prompt for the stored order X (state MENU, the
\* keyboard offers update_existing_X), pressing update_existing_X takes the
\* chat to UPDATE_SELECTION with os_data equal to the stored order X, and the
\* store is left as it was.
C32_UpdateExistingOpensStoredOrder ==
    [][\A s \in DOMAIN conv : \A n \in Ids :
          (/\ conv[s] = "MENU"
           /\ <<"update", "existing", n>> \in kb[s]
           /\ get_os_ref(n) \in DOMAIN store
           /\ Handled(s, "cb")
           /\ last'.data = <<"update", "existing", n>>)
              => (/\ conv'[s] = "UPDATE_SELECTION"
                  /\ user_data'[s].os_kind = "dict"
                  /\ user_data'[s].os_data = store[get_os_ref(n)]
                  /\ store' = store)]_vars

\* C33: in every state of a conversation (every state but END, where the chat
\* has no conversation) the command /cancel is handled, and handling it ends
\* the conversation: the chat goes to END and its user_data is cleared. The
\* application takes an update when the handler of the one before has
\* returned: /cancel is handled at once when no handler is suspended, and a
\* suspended handler can always go on.
C33_CancelHandledInEveryState ==
    /\ [](\A s \in OneChat :
             /\ (conv[s] # END /\ awaiting.s = 0) => ENABLED Cancel(s)
             /\ awaiting.s = s =>
                   ENABLED (\/ SaveOsToFirestoreStored(s) \/ SaveOsToFirestoreReplied(s)
                            \/ ConfirmDeleteReplied(s)
                            \/ ProcessarPdfRead(s) \/ ProcessarPdfStored(s)
                            \/ ProcessarPdfReplied(s)))
    /\ [][\A s \in DOMAIN conv :
             (conv[s] # END /\ Handled(s, "cmd") /\ last'.data = <<"cancel">>)
                => (conv'[s] = END /\ user_data'[s] = UD0)]_vars

\* C33, the case: /cancel has just been handled and the chat is left without
\* a conversation, a draft or a keyboard.
C33_Witness ==
    /\ last.s \in OneChat /\ last.kind = "cmd" /\ last.data = <<"cancel">>
    /\ conv[last.s] = END
    /\ user_data[last.s] = UD0
    /\ kb[last.s] = {}

\* C34: while the summary is displayed in RESUMO_INCLUSAO (the keyboard of
\* the last message is the one of the summary), a text message changes no
\* field of os_data.
C34_TextAtSummaryKeepsDraft ==
    [][\A s \in DOMAIN conv :
          (/\ conv[s] = "RESUMO_INCLUSAO"
           /\ kb[s] = ResumoKeyboard
           /\ Handled(s, "text"))
              => user_data'[s].os_data = user_data[s].os_data]_vars

\* C35: pressing confirm_delete_N in CONFIRM_DELETE while order N is stored
\* removes order N from the store and leaves every other order as it was.
C35_ConfirmDeleteRemovesCarriedNumber ==
    [][\A s \in DOMAIN conv : \A n \in Ids :
          (/\ conv[s] = "CONFIRM_DELETE"
           /\ get_os_ref(n) \in DOMAIN store
           /\ Handled(s, "cb")
           /\ last'.data = <<"confirm", "delete", n>>)
              => store' = Del(store, get_os_ref(n))]_vars

\* C37: every order of the store holds in 'Número da O.S.' the number of the
\* document it is stored under, and no step of a chat changes the
\* 'Número da O.S.' that the chat's os_data already holds, unless the step
\* reads another order from the store to work on (a number typed in
\* PROMPT_OS_ID, PROMPT_OS_UPDATE or PROMPT_OS_DELETE, or update_existing_N).
C37_IdentifierIsKeyAndFixed ==
    /\ [](\A k \in DOMAIN store :
             NUM \in DOMAIN store[k] /\ get_os_ref(store[k][NUM].s) = k)
    /\ [][\A s \in DOMAIN conv :
             (/\ last'.s = s
              /\ ~(last'.kind = "text"
                    /\ conv[s] \in {"PROMPT_OS_ID", "PROMPT_OS_UPDATE", "PROMPT_OS_DELETE"})
              /\ ~(/\ last'.kind = "cb" /\ Len(last'.data) = 3
                    /\ last'.data[1] = "update" /\ last'.data[2] = "existing")
              /\ NUM \in DOMAIN user_data[s].os_data
              /\ NUM \in DOMAIN user_data'[s].os_data)
                => user_data'[s].os_data[NUM] = user_data[s].os_data[NUM]]_vars

\* C37, the case: a draft typed in the Create dialogue has just been saved
\* beside an order that a document upload wrote, and each of the two is
\* stored under its 'Número da O.S.'.
C37_Witness ==
    /\ last.kind = "return" /\ last.data = <<"confirm", "save">>
    /\ conv[last.s] = "MENU"
    /\ \E k1, k2 \in DOMAIN store :
          /\ k1 # k2
          /\ Get(store[k1], "Chamado") = Str("CH-1")
          /\ Get(store[k2], "Chamado") \in {Str(x) : x \in Texts}
          /\ get_os_ref(store[k1][NUM].s) = k1
          /\ get_os_ref(store[k2][NUM].s) = k2

\* C38: an Agendamento set by the text N/A in RESUMO_INCLUSAO is kept as a
\* text that is not empty (so neither '' nor None), and format_os_data shows
\* three different texts for that marker, for '' and for a missing
\* Agendamento.
C38_ThreeTextsForMarkerEmptyAbsent ==
    [][\A s \in DOMAIN conv :
          (/\ conv[s] = "RESUMO_INCLUSAO" /\ Handled(s, "text") /\ IsNA(last'.data[1])
           /\ user_data[s].os_kind = "dict"
           /\ user_data[s].current_step = "RESUMO_INCLUSAO")
            => LET d == user_data'[s].os_data
                   marker == format_os_data(d)["Agendamento"]
                   empty == format_os_data(Put(d, "Agendamento", Str("")))["Agendamento"]
                   absent == format_os_data(Del(d, "Agendamento"))["Agendamento"]
               IN /\ d["Agendamento"].k = "str" /\ d["Agendamento"].s # ""
                  /\ marker # empty /\ marker # absent /\ empty # absent]_vars

====
